---- MODULE Spec2Model ----
(***************************************************************************)
(* Model of seed_fetcher's ResourceStore (seed_fetcher/src/lib.rs): the    *)
(* cache map, the messages notified on the seed message bus and not yet    *)
(* handed to ResourceStore::update, and the fetch commands started with    *)
(* perform_cmd whose resulting message has not yet been applied.           *)
(***************************************************************************)
EXTENDS Integers, Sequences, FiniteSets, TLC

\* Bounds of the model.
MaxQueue == 2       \* notified messages waiting for update
MaxInFlight == 2    \* fetch commands per resource running at the same time

\* Resource keys, the Rust types a resource is read as, payload contents.
Keys == {"/api/test1"}
Types == {"String", "VecU32"}
Values == {1, 2}

\* enum CachePolicy
MustBeFresh == "MustBeFresh"
MayBeStale == "MayBeStale"
SilentRefetch == "SilentRefetch"
CachePolicy == {MustBeFresh, MayBeStale, SilentRefetch}

\* enum Freshness
Fresh == "Fresh"
Dirty == "Dirty"
BeingRefetched == "BeingRefetched"
Freshness == {Fresh, Dirty, BeingRefetched}

\* enum NotAvailable
Stale == "Stale"
NotFetched == "NotFetched"

\* enum ContentType
Json == "Json"
MsgPack == "MsgPack"

\* enum CacheEntry; NoEntry is a key the HashMap does not hold.
NoEntry == [kind |-> "None"]
WillBeFetched == [kind |-> "WillBeFetched"]
Fetched(r) == [kind |-> "Fetched", r |-> r]

\* struct CachedResource
CachedResource(raw, content_type, freshness, deserialized) ==
    [raw |-> raw, content_type |-> content_type,
     freshness |-> freshness, deserialized |-> deserialized]

\* Result values of the typed accessors; Panic is the failed downcast.
Ok(v) == [tag |-> "Ok", value |-> v]
Err(e) == [tag |-> "Err", error |-> e]
Panic == [tag |-> "Panic"]
NoResult == [tag |-> "-"]

\* Events of mod event, and the ErrorKind they may carry.
EvRequest(resource, ty) == [ev |-> "Request", resource |-> resource, deserialize |-> ty]
EvMarkDirty(resource) == [ev |-> "MarkDirty", resource |-> resource]
EvFetched(resource) == [ev |-> "Fetched", resource |-> resource]
EvError(resource, kind) == [ev |-> "Error", resource |-> resource, kind |-> kind]

DeserializeError == [kind |-> "DeserializeError"]
FetchError == [kind |-> "FetchError"]
UnsupportedContentType(ct) == [kind |-> "UnsupportedContentType", content_type |-> ct]

\* enum ResourceMsg, the two variants a fetch command resolves to.
MsgFetched(resource, cr) == [msg |-> "Fetched", resource |-> resource, data |-> cr]
MsgError(resource, kind) == [msg |-> "Error", resource |-> resource, kind |-> kind]
NoMsg == [msg |-> "-"]

\* What the server may answer: a transport failure, or a body with an
\* optional content-type header.  A body encodes a value of one Rust type,
\* or nothing a deserializer accepts.
Garbage == [ty |-> "garbage", val |-> 0]
Bodies == [ty : Types, val : Values] \cup {Garbage}
NoHeader == "<none>"
Headers == {"application/json", "application/msgpack", "text/html", NoHeader}
Responses == {[status |-> "Err"]} \cup [status : {"Ok"}, content_type : Headers, bytes : Bodies]

\* cache, bus, inflight and last are the store and the calls made on it; input
\* and output are the struct handed to #[derive(Resources)] and its expansion.
VARIABLES cache, bus, inflight, last, input, output
vars == <<cache, bus, inflight, last, input, output>>

\* The operation that led to the current state: its arguments (for update, the
\* message applied), the entry of its key before it ran, its return value, the
\* events it notified and the number of fetch commands it started.
Op(op, resource, policy, ty, msg, before, result, events, cmds) ==
    [op |-> op, resource |-> resource, policy |-> policy, ty |-> ty, msg |-> msg,
     before |-> before, result |-> result, events |-> events, cmds |-> cmds]

RECURSIVE SumOver(_, _)
SumOver(f, S) ==
    IF S = {} THEN 0
    ELSE LET x == CHOOSE y \in S : TRUE IN f[x] + SumOver(f, S \ {x})

\* Fetch commands of a resource whose result has not been applied yet.
Outstanding(resource) == SumOver(inflight[resource], Types)

\* No struct is being derived while the store runs.
NoInput == [data |-> "-"]
NotExpanded == [expanded |-> FALSE]

Init ==
    /\ cache = [k \in Keys |-> NoEntry]
    /\ bus = <<>>
    /\ inflight = [k \in Keys |-> [t \in Types |-> 0]]
    /\ last = Op("new", "-", "-", "-", NoMsg, NoEntry, NoResult, <<>>, 0)
    /\ input = NoInput
    /\ output = NotExpanded

\* The closure acquire binds to T: decode the bytes by content type and box
\* the value as a T.
Deserialize(ty, content_type, bytes) ==
    IF bytes.ty = ty
    THEN Ok([ty |-> ty, val |-> bytes.val])
    ELSE Err("()")

\* The async block handed to perform_cmd: fetch, negotiate the content type,
\* deserialize, and resolve to the ResourceMsg fed back into update.
FetchTask(resource, ty, response) ==
    IF response.status = "Err" THEN MsgError(resource, FetchError)
    ELSE IF response.content_type = NoHeader
    THEN MsgError(resource, UnsupportedContentType(""))
    ELSE IF response.content_type \notin {"application/json", "application/msgpack"}
    THEN MsgError(resource, UnsupportedContentType(response.content_type))
    ELSE LET content_type == IF response.content_type = "application/json"
                             THEN Json ELSE MsgPack
             d == Deserialize(ty, content_type, response.bytes)
         IN IF d.tag = "Ok"
            THEN MsgFetched(resource,
                     CachedResource(response.bytes, content_type, Fresh, d.value))
            ELSE MsgError(resource, DeserializeError)

\* Bug: a request for a resource that is already being fetched starts another fetch.
UpdateRequest_RefetchesPending(c, resource) ==
    LET e == c[resource] IN
    IF e.kind = "Fetched" /\ e.r.freshness = Dirty
    THEN [cache |-> [c EXCEPT ![resource] =
                        Fetched([e.r EXCEPT !.freshness = BeingRefetched])],
          cmd |-> TRUE]
    ELSE IF e.kind = "Fetched" THEN [cache |-> c, cmd |-> FALSE]
    ELSE [cache |-> [c EXCEPT ![resource] = WillBeFetched], cmd |-> TRUE]

\* Bug: every cached resource is refetched on request, Dirty or not.
UpdateRequest_RefetchesAnyCached(c, resource) ==
    LET e == c[resource] IN
    IF e = WillBeFetched THEN [cache |-> c, cmd |-> FALSE]
    ELSE IF e.kind = "Fetched"
    THEN [cache |-> [c EXCEPT ![resource] =
                        Fetched([e.r EXCEPT !.freshness = BeingRefetched])],
          cmd |-> TRUE]
    ELSE [cache |-> [c EXCEPT ![resource] = WillBeFetched], cmd |-> TRUE]

\* Bug: a refetch is started but the entry is left Dirty.
UpdateRequest_LeavesDirty(c, resource) ==
    LET e == c[resource] IN
    IF e = WillBeFetched THEN [cache |-> c, cmd |-> FALSE]
    ELSE IF e.kind = "Fetched" /\ e.r.freshness = Dirty THEN [cache |-> c, cmd |-> TRUE]
    ELSE IF e.kind = "Fetched" THEN [cache |-> c, cmd |-> FALSE]
    ELSE [cache |-> [c EXCEPT ![resource] = WillBeFetched], cmd |-> TRUE]

\* update, ResourceMsg::Request: the new cache and whether a fetch command
\* is started.
UpdateRequest(c, resource) ==
    LET e == c[resource] IN
    IF e = WillBeFetched THEN [cache |-> c, cmd |-> FALSE]
    ELSE IF e.kind = "Fetched" /\ e.r.freshness = Dirty
    THEN [cache |-> [c EXCEPT ![resource] =
                        Fetched([e.r EXCEPT !.freshness = BeingRefetched])],
          cmd |-> TRUE]
    ELSE IF e.kind = "Fetched" THEN [cache |-> c, cmd |-> FALSE]
    ELSE [cache |-> [c EXCEPT ![resource] = WillBeFetched], cmd |-> TRUE]

\* Bug: a fetch result fills an empty slot but does not replace a cached resource.
UpdateFetched_KeepCached(c, resource, data) ==
    IF c[resource].kind = "Fetched" THEN c ELSE [c EXCEPT ![resource] = Fetched(data)]

\* Bug: a result that arrives for an entry already Fresh is taken for an
\* outdated one and stored as Dirty.
UpdateFetched_StaleOnFresh(c, resource, data) ==
    IF c[resource].kind = "Fetched" /\ c[resource].r.freshness = Fresh
    THEN [c EXCEPT ![resource] = Fetched([data EXCEPT !.freshness = Dirty])]
    ELSE [c EXCEPT ![resource] = Fetched(data)]

\* update, ResourceMsg::Fetched: the new cache.
UpdateFetched(c, resource, data) ==
    [c EXCEPT ![resource] = Fetched(data)]

\* Bug: a failed fetch drops the entry of its resource.
UpdateError_DropEntry(c, resource, kind) ==
    [c EXCEPT ![resource] = NoEntry]

\* Bug: a failed refetch puts the entry back to Dirty.
UpdateError_RevertsToDirty(c, resource, kind) ==
    IF c[resource].kind = "Fetched" /\ c[resource].r.freshness = BeingRefetched
    THEN [c EXCEPT ![resource] = Fetched([c[resource].r EXCEPT !.freshness = Dirty])]
    ELSE c

\* update, ResourceMsg::Error: the new cache.
UpdateError(c, resource, kind) == c

\* Bug: a resource is invalidated by evicting its entry.
UpdateMarkDirty_Evicts(c, resource) ==
    IF c[resource].kind = "Fetched" THEN [c EXCEPT ![resource] = NoEntry] ELSE c

\* Bug: only a Fresh resource is marked dirty.
UpdateMarkDirty_OnlyFresh(c, resource) ==
    IF c[resource].kind = "Fetched" /\ c[resource].r.freshness = Fresh
    THEN [c EXCEPT ![resource] = Fetched([c[resource].r EXCEPT !.freshness = Dirty])]
    ELSE c

\* update, ResourceMsg::MarkDirty: the new cache.
UpdateMarkDirty(c, resource) ==
    IF c[resource].kind = "Fetched"
    THEN [c EXCEPT ![resource] = Fetched([c[resource].r EXCEPT !.freshness = Dirty])]
    ELSE c

\* Bug: a missing entry does not ask for a fetch.
LookupEntry_NoFetchWhenMissing(e) ==
    IF e = NoEntry THEN [found |-> FALSE, error |-> NotFetched, fetch |-> FALSE]
    ELSE IF e = WillBeFetched THEN [found |-> FALSE, error |-> NotFetched, fetch |-> FALSE]
    ELSE [found |-> TRUE, r |-> e.r]

\* Bug: a pending entry asks for a fetch again.
LookupEntry_FetchWhenPending(e) ==
    IF e = NoEntry THEN [found |-> FALSE, error |-> NotFetched, fetch |-> TRUE]
    ELSE IF e = WillBeFetched THEN [found |-> FALSE, error |-> NotFetched, fetch |-> TRUE]
    ELSE [found |-> TRUE, r |-> e.r]

\* acquire_and_fetch, the lookup: the entry's resource, or why there is none
\* and whether to fetch.
LookupEntry(e) ==
    IF e = NoEntry THEN [found |-> FALSE, error |-> NotFetched, fetch |-> TRUE]
    ELSE IF e = WillBeFetched THEN [found |-> FALSE, error |-> NotFetched, fetch |-> FALSE]
    ELSE [found |-> TRUE, r |-> e.r]

\* Bug: the policy is matched before the freshness, so SilentRefetch refetches
\* a Fresh resource.
PolicyTable_RefetchFresh(freshness, policy) ==
    IF policy = MayBeStale THEN [serve |-> TRUE, fetch |-> FALSE]
    ELSE IF freshness = Fresh THEN [serve |-> TRUE, fetch |-> policy = SilentRefetch]
    ELSE IF freshness = Dirty /\ policy = SilentRefetch THEN [serve |-> TRUE, fetch |-> TRUE]
    ELSE IF freshness = BeingRefetched /\ policy = SilentRefetch
    THEN [serve |-> TRUE, fetch |-> FALSE]
    ELSE IF freshness = BeingRefetched /\ policy = MustBeFresh
    THEN [serve |-> FALSE, fetch |-> FALSE]
    ELSE [serve |-> FALSE, fetch |-> TRUE]

\* Bug: the fetch flags of the two MustBeFresh arms are swapped.
PolicyTable_SwappedMustBeFresh(freshness, policy) ==
    IF freshness = Fresh \/ policy = MayBeStale THEN [serve |-> TRUE, fetch |-> FALSE]
    ELSE IF freshness = Dirty /\ policy = SilentRefetch THEN [serve |-> TRUE, fetch |-> TRUE]
    ELSE IF freshness = BeingRefetched /\ policy = SilentRefetch
    THEN [serve |-> TRUE, fetch |-> FALSE]
    ELSE IF freshness = BeingRefetched /\ policy = MustBeFresh
    THEN [serve |-> FALSE, fetch |-> TRUE]
    ELSE [serve |-> FALSE, fetch |-> FALSE]

\* Bug: SilentRefetch does not tell Dirty from BeingRefetched.
PolicyTable_SilentAlwaysRefetch(freshness, policy) ==
    IF freshness = Fresh \/ policy = MayBeStale THEN [serve |-> TRUE, fetch |-> FALSE]
    ELSE IF policy = SilentRefetch THEN [serve |-> TRUE, fetch |-> TRUE]
    ELSE IF freshness = BeingRefetched /\ policy = MustBeFresh
    THEN [serve |-> FALSE, fetch |-> FALSE]
    ELSE [serve |-> FALSE, fetch |-> TRUE]

\* acquire_and_fetch, the match on (freshness, policy): serve or refuse as
\* stale, and whether to fetch.
PolicyTable(freshness, policy) ==
    IF freshness = Fresh \/ policy = MayBeStale THEN [serve |-> TRUE, fetch |-> FALSE]
    ELSE IF freshness = Dirty /\ policy = SilentRefetch THEN [serve |-> TRUE, fetch |-> TRUE]
    ELSE IF freshness = BeingRefetched /\ policy = SilentRefetch
    THEN [serve |-> TRUE, fetch |-> FALSE]
    ELSE IF freshness = BeingRefetched /\ policy = MustBeFresh
    THEN [serve |-> FALSE, fetch |-> FALSE]
    ELSE [serve |-> FALSE, fetch |-> TRUE]

\* acquire_and_fetch, downcast_ref of the type-erased value to T.
Downcast(deserialized, ty) ==
    IF deserialized.ty = ty THEN Ok(deserialized) ELSE Panic

\* acquire_and_fetch: the typed result and the fetch flag.  A failed downcast
\* panics before anything is returned.
acquire_and_fetch(c, resource, policy, ty) ==
    LET l == LookupEntry(c[resource]) IN
    IF ~l.found THEN [result |-> Err(l.error), fetch |-> l.fetch]
    ELSE LET p == PolicyTable(l.r.freshness, policy) IN
         IF ~p.serve THEN [result |-> Err(Stale), fetch |-> p.fetch]
         ELSE LET d == Downcast(l.r.deserialized, ty) IN
              IF d = Panic THEN [result |-> Panic, fetch |-> FALSE]
              ELSE [result |-> d, fetch |-> p.fetch]

\* A failed downcast aborts the application: nothing runs afterwards.
Running == last.result # Panic

\* ResourceStore::acquire
Acquire(resource, policy, ty) ==
    LET a == acquire_and_fetch(cache, resource, policy, ty) IN
    /\ Running
    /\ a.fetch => Len(bus) < MaxQueue
    /\ bus' = IF a.fetch THEN Append(bus, EvRequest(resource, ty)) ELSE bus
    /\ last' = Op("acquire", resource, policy, ty, NoMsg, cache[resource], a.result,
                  IF a.fetch THEN <<EvRequest(resource, ty)>> ELSE <<>>, 0)
    /\ UNCHANGED <<cache, inflight, input, output>>

\* Bug: acquire_now reads with MustBeFresh whatever policy it is given.
AcquireNow_IgnoresPolicy(resource, policy, ty) ==
    /\ Running
    /\ last' = Op("acquire_now", resource, policy, ty, NoMsg, cache[resource],
                  acquire_and_fetch(cache, resource, MustBeFresh, ty).result, <<>>, 0)
    /\ UNCHANGED <<cache, bus, inflight, input, output>>

\* ResourceStore::acquire_now
AcquireNow(resource, policy, ty) ==
    /\ Running
    /\ last' = Op("acquire_now", resource, policy, ty, NoMsg, cache[resource],
                  acquire_and_fetch(cache, resource, policy, ty).result, <<>>, 0)
    /\ UNCHANGED <<cache, bus, inflight, input, output>>

\* Bug: mark_as_dirty writes the entry itself besides notifying.
MarkAsDirty_WritesCache(resource) ==
    /\ Running
    /\ Len(bus) < MaxQueue
    /\ bus' = Append(bus, EvMarkDirty(resource))
    /\ cache' = UpdateMarkDirty(cache, resource)
    /\ last' = Op("mark_as_dirty", resource, "-", "-", NoMsg, cache[resource], NoResult,
                  <<EvMarkDirty(resource)>>, 0)
    /\ UNCHANGED <<inflight, input, output>>

\* ResourceStore::mark_as_dirty
MarkAsDirty(resource) ==
    /\ Running
    /\ Len(bus) < MaxQueue
    /\ bus' = Append(bus, EvMarkDirty(resource))
    /\ last' = Op("mark_as_dirty", resource, "-", "-", NoMsg, cache[resource], NoResult,
                  <<EvMarkDirty(resource)>>, 0)
    /\ UNCHANGED <<cache, inflight, input, output>>

\* The bus hands the oldest notified Request to update.
DeliverRequest ==
    /\ Running
    /\ bus # <<>>
    /\ Head(bus).ev = "Request"
    /\ LET resource == Head(bus).resource
           ty == Head(bus).deserialize
           u == UpdateRequest(cache, resource)
       IN /\ u.cmd => Outstanding(resource) < MaxInFlight
          /\ cache' = u.cache
          /\ inflight' = IF u.cmd
                         THEN [inflight EXCEPT ![resource][ty] = @ + 1]
                         ELSE inflight
          /\ last' = Op("Request", resource, "-", ty, Head(bus), cache[resource], NoResult,
                        <<>>, IF u.cmd THEN 1 ELSE 0)
    /\ bus' = Tail(bus)
    /\ UNCHANGED <<input, output>>

\* The bus hands the oldest notified MarkDirty to update.
DeliverMarkDirty ==
    /\ Running
    /\ bus # <<>>
    /\ Head(bus).ev = "MarkDirty"
    /\ LET resource == Head(bus).resource
       IN /\ cache' = UpdateMarkDirty(cache, resource)
          /\ last' = Op("MarkDirty", resource, "-", "-", Head(bus), cache[resource], NoResult,
                        <<>>, 0)
    /\ bus' = Tail(bus)
    /\ UNCHANGED <<inflight, input, output>>

\* A running fetch command resolves, whatever the server answered, and its
\* message is applied by update.
CompleteFetch(resource, ty, response) ==
    LET m == FetchTask(resource, ty, response) IN
    /\ Running
    /\ inflight[resource][ty] > 0
    /\ inflight' = [inflight EXCEPT ![resource][ty] = @ - 1]
    /\ IF m.msg = "Fetched"
       THEN /\ cache' = UpdateFetched(cache, resource, m.data)
            /\ last' = Op("Fetched", resource, "-", ty, m, cache[resource], NoResult,
                          <<EvFetched(resource)>>, 0)
       ELSE /\ cache' = UpdateError(cache, resource, m.kind)
            /\ last' = Op("Error", resource, "-", ty, m, cache[resource], NoResult,
                          <<EvError(resource, m.kind)>>, 0)
    /\ UNCHANGED <<bus, input, output>>

Next ==
    \/ \E k \in Keys, p \in CachePolicy, t \in Types : Acquire(k, p, t)
    \/ \E k \in Keys, p \in CachePolicy, t \in Types : AcquireNow(k, p, t)
    \/ \E k \in Keys : MarkAsDirty(k)
    \/ DeliverRequest
    \/ DeliverMarkDirty
    \/ \E k \in Keys, t \in Types, r \in Responses : CompleteFetch(k, t, r)

Spec == Init /\ [][Next]_vars

\* The calls of one consumer that reads a resource, has it invalidated and
\* reads it again, every notified message being applied before the next call:
\* acquire(MustBeFresh); Request; the fetch succeeds; acquire(MustBeFresh);
\* mark_as_dirty; MarkDirty; acquire(SilentRefetch); Request;
\* acquire(SilentRefetch); the refetch resolves.  The operation that ran last
\* tells which one is next.
StoredType(resource) == cache[resource].r.deserialized.ty

ScenarioNext ==
    \/ /\ last.op = "new"
       /\ \E k \in Keys, t \in Types : Acquire(k, MustBeFresh, t)
    \/ /\ last.op = "acquire" /\ last.events # <<>>
       /\ DeliverRequest
    \/ /\ last.op = "Request" /\ last.before = NoEntry
       /\ \E r \in Responses :
             /\ FetchTask(last.resource, last.ty, r).msg = "Fetched"
             /\ CompleteFetch(last.resource, last.ty, r)
    \/ /\ last.op = "Fetched" /\ last.before = WillBeFetched
       /\ Acquire(last.resource, MustBeFresh, StoredType(last.resource))
    \/ /\ last.op = "acquire" /\ last.before.kind = "Fetched"
       /\ last.before.r.freshness = Fresh
       /\ MarkAsDirty(last.resource)
    \/ /\ last.op = "mark_as_dirty"
       /\ DeliverMarkDirty
    \/ /\ last.op = "MarkDirty"
       /\ Acquire(last.resource, SilentRefetch, StoredType(last.resource))
    \/ /\ last.op = "Request" /\ last.before.kind = "Fetched"
       /\ Acquire(last.resource, SilentRefetch, StoredType(last.resource))
    \/ /\ last.op = "acquire" /\ last.events = <<>> /\ last.before.kind = "Fetched"
       /\ last.before.r.freshness = BeingRefetched
       /\ \E t \in Types, r \in Responses : CompleteFetch(last.resource, t, r)

Scenario == Init /\ [][ScenarioNext]_vars

\* The application whose first fetch of every key is requested as FirstType:
\* it reads a key that has no entry as FirstType only, and is free otherwise.
\* (Requests are applied in the order notified and an entry never goes back to
\* absent, so the command started from the absent entry deserializes FirstType.)
FirstType == "String"

FirstTypedNext ==
    \/ \E k \in Keys, p \in CachePolicy, t \in Types :
          /\ cache[k] = NoEntry => t = FirstType
          /\ Acquire(k, p, t)
    \/ \E k \in Keys, p \in CachePolicy, t \in Types : AcquireNow(k, p, t)
    \/ \E k \in Keys : MarkAsDirty(k)
    \/ DeliverRequest
    \/ DeliverMarkDirty
    \/ \E k \in Keys, t \in Types, r \in Responses : CompleteFetch(k, t, r)

FirstTyped == Init /\ [][FirstTypedNext]_vars

(***************************************************************************)
(* #[derive(Resources)] (seed_fetcher_derive/src/lib.rs): the macro as a   *)
(* function from the struct it is applied to, to the items it generates.   *)
(***************************************************************************)

\* Bound of the structs handed to the macro.
MaxAttrs == 2       \* attributes on one field

\* The field names, in declaration order, and the URLs they may declare.
Idents == <<"res", "res_2">>
Urls == {"/api/test1", "/api/test34"}
PolicyNames == {"MustBeFresh", "MayBeStale", "SilentRefetch"}

\* syn::Meta of an attribute: #[path = "value"], or a list such as
\* #[allow(dead_code)].
LitStr(s) == [kind |-> "Str", value |-> s]
MetaNameValue(path, lit) == [meta |-> "NameValue", path |-> path, lit |-> lit]
MetaList(path) == [meta |-> "List", path |-> path]

Attrs ==
    {MetaNameValue("url", LitStr(u)) : u \in Urls}
        \cup {MetaNameValue("policy", LitStr(p)) : p \in PolicyNames}
        \cup {MetaList("allow")}

\* Field types: DontFetch, or a reference to a deserialized resource.
DontFetch == "DontFetch"
FieldTypes == {"&'a T", DontFetch}

SeqsUpTo(S, n) == UNION {[1..m -> S] : m \in 0..n}

\* syn::DeriveInput: a struct with named fields, a unit struct, a tuple
\* struct, an enum or a union.
FieldsOf(n) ==
    {f \in [1..n -> [ident : {Idents[i] : i \in 1..Len(Idents)},
                     attrs : SeqsUpTo(Attrs, MaxAttrs), ty : FieldTypes]] :
        \A i \in 1..n : f[i].ident = Idents[i]}

DeriveInputs ==
    {[data |-> "Struct", fields |-> "Named", named |-> f] :
        f \in UNION {FieldsOf(n) : n \in 0..Len(Idents)}}
      \cup {[data |-> "Struct", fields |-> k, named |-> <<>>] : k \in {"Unit", "Unnamed"}}
      \cup {[data |-> d, fields |-> "-", named |-> <<>>] : d \in {"Enum", "Union"}}

\* A panic of the macro is a compile error of the deriving crate.
MacroPanic(msg) == [expanded |-> TRUE, panic |-> msg]
Panicked(x) == "panic" \in DOMAIN x
NoneFound == [some |-> FALSE]
Some(v) == [some |-> TRUE, value |-> v]

\* nvs: the name-value attributes of a field, the others dropped.
NameValues(attrs) == SelectSeq(attrs, LAMBDA a : a.meta = "NameValue")

\* .filter(path is name).next(): the first name-value attribute called name.
FirstNamed(nvs, name) ==
    LET named == SelectSeq(nvs, LAMBDA nv : nv.path = name)
    IN IF named = <<>> THEN NoneFound ELSE Some(named[1])

\* Bug: every attribute is taken for the url attribute.
FieldUrl_FirstAttribute(nvs) ==
    IF nvs = <<>> THEN MacroPanic("missing \"url\" attribute")
    ELSE IF nvs[1].lit.kind # "Str" THEN MacroPanic("expected a string literal")
    ELSE Some(nvs[1].lit.value)

\* let url: the literal of the first url attribute.
FieldUrl(nvs) ==
    LET nv == FirstNamed(nvs, "url") IN
    IF ~nv.some THEN MacroPanic("missing \"url\" attribute")
    ELSE IF nv.value.lit.kind # "Str" THEN MacroPanic("expected a string literal")
    ELSE Some(nv.value.lit.value)

\* The match on the policy string: the path of the policy the generated
\* calls pass.
PolicyTokens(s) ==
    IF s = "MustBeFresh" THEN Some(MustBeFresh)
    ELSE IF s = "MayBeStale" THEN Some(MustBeFresh)
    ELSE IF s = "SilentRefetch" THEN Some(SilentRefetch)
    ELSE MacroPanic("invalid cache-policy")

\* let policy: from the first policy attribute, MustBeFresh without one.
FieldPolicy(nvs) ==
    LET nv == FirstNamed(nvs, "policy") IN
    IF ~nv.some THEN Some(MustBeFresh)
    ELSE IF nv.value.lit.kind # "Str"
    THEN MacroPanic("invalid cache-policy, expected a string")
    ELSE PolicyTokens(nv.value.lit.value)

\* The generated items, as the macro accumulates them field by field.
NoItems ==
    [expanded |-> TRUE, acquire_assign |-> <<>>, acquire_return |-> <<>>,
     acquire_now |-> <<>>, url_getters |-> <<>>, url_array |-> <<>>]

\* One iteration of `for field in fields`.
ExpandField(items, field) ==
    LET nvs == NameValues(field.attrs)
        url == FieldUrl(nvs)
        policy == FieldPolicy(nvs)
    IN
    IF Panicked(url) THEN url
    ELSE IF Panicked(policy) THEN policy
    ELSE LET fetched ==
                 IF field.ty = DontFetch
                 THEN [items EXCEPT
                         !.acquire_now = Append(@, [field |-> field.ident,
                                                    init |-> DontFetch]),
                         !.acquire_return = Append(@, [field |-> field.ident,
                                                       init |-> DontFetch])]
                 ELSE [items EXCEPT
                         !.acquire_now = Append(@, [field |-> field.ident,
                                                    init |-> "acquire_now",
                                                    url |-> url.value,
                                                    policy |-> policy.value]),
                         !.acquire_assign = Append(@, [field |-> field.ident,
                                                       init |-> "acquire",
                                                       url |-> url.value,
                                                       policy |-> policy.value]),
                         !.acquire_return = Append(@, [field |-> field.ident,
                                                       init |-> "?"])]
         IN [fetched EXCEPT
               !.url_getters = Append(@, [name |-> field.ident \o "_url",
                                          returns |-> url.value]),
               !.url_array = Append(@, url.value)]

RECURSIVE ExpandFields(_, _)
ExpandFields(items, fields) ==
    IF fields = <<>> \/ Panicked(items) THEN items
    ELSE ExpandFields(ExpandField(items, Head(fields)), Tail(fields))

\* derive_resources
derive_resources(inp) ==
    IF inp.data = "Enum" THEN MacroPanic("expected struct, found enum")
    ELSE IF inp.data = "Union" THEN MacroPanic("expected struct, found union")
    ELSE IF inp.fields = "Unnamed" THEN MacroPanic("unnamed fields are not supported")
    ELSE ExpandFields(NoItems, IF inp.fields = "Named" THEN inp.named ELSE <<>>)

\* The compiler hands a struct to the macro and takes its expansion.
DeriveInit ==
    /\ cache = [k \in Keys |-> NoEntry]
    /\ bus = <<>>
    /\ inflight = [k \in Keys |-> [t \in Types |-> 0]]
    /\ last = Op("new", "-", "-", "-", NoMsg, NoEntry, NoResult, <<>>, 0)
    /\ input \in DeriveInputs
    /\ output = NotExpanded

DeriveResources ==
    /\ output = NotExpanded
    /\ input # NoInput
    /\ output' = derive_resources(input)
    /\ UNCHANGED <<cache, bus, inflight, last, input>>

Derive == DeriveInit /\ [][DeriveResources]_vars

(***************************************************************************)
(* Properties.                                                             *)
(***************************************************************************)

\* Shorthands over the operation that led to the current state.
IsFetchedWith(e, freshness) == e.kind = "Fetched" /\ e.r.freshness = freshness
AcquiredOn(freshness) == last.op = "acquire" /\ IsFetchedWith(last.before, freshness)
TypeMatches == last.before.kind = "Fetched" /\ last.before.r.deserialized.ty = last.ty
RequestEvent == <<EvRequest(last.resource, last.ty)>>

\* C1: every resource has at most one fetch command whose Fetched or Error
\* result has not yet been applied to the store.
C1_AtMostOneOutstandingFetch ==
    \A k \in Keys : Outstanding(k) <= 1

\* C2: a Pending or BeingRefetched entry has exactly one fetch in flight, and
\* an absent, Fresh or Dirty entry has none.
C2_InFlightMatchesEntry ==
    \A k \in Keys :
        IF cache[k] = WillBeFetched \/ IsFetchedWith(cache[k], BeingRefetched)
        THEN Outstanding(k) = 1
        ELSE Outstanding(k) = 0

\* C3: acquire on a key with no entry returns Err(NotFetched) and notifies
\* exactly one Request for that key, under every policy.
C3_AcquireAbsent ==
    (last.op = "acquire" /\ last.before = NoEntry) =>
        /\ last.result = Err(NotFetched)
        /\ last.events = RequestEvent
        /\ bus # <<>> /\ bus[Len(bus)] = EvRequest(last.resource, last.ty)

C3_Witness ==
    /\ last.op = "acquire" /\ last.before = NoEntry
    /\ last.policy = MayBeStale

\* C4: acquire on a Pending key returns Err(NotFetched) and notifies no
\* Request, under every policy and however often it is repeated.
C4_AcquirePending ==
    (last.op = "acquire" /\ last.before = WillBeFetched) =>
        /\ last.result = Err(NotFetched)
        /\ last.events = <<>>
        /\ cache[last.resource] = WillBeFetched

C4_Witness ==
    /\ last.op = "acquire" /\ last.before = WillBeFetched
    /\ last.policy = SilentRefetch
    /\ bus = <<>> /\ Outstanding(last.resource) = 1

\* C5: acquire on a Fresh entry notifies no Request under any policy and,
\* read as the type the value was fetched as, returns Ok(stored value).
C5_AcquireFresh ==
    AcquiredOn(Fresh) =>
        /\ last.events = <<>>
        /\ TypeMatches => last.result = Ok(last.before.r.deserialized)

C5_Witness ==
    /\ AcquiredOn(Fresh) /\ TypeMatches
    /\ last.policy = SilentRefetch

\* C6: acquire on a Dirty entry: MayBeStale returns Ok(value) and no Request;
\* SilentRefetch returns Ok(value) and one Request; MustBeFresh returns
\* Err(Stale) and one Request.  (Ok for a read as the type fetched.)
C6_AcquireDirty ==
    AcquiredOn(Dirty) =>
        /\ last.policy = MayBeStale =>
              /\ last.events = <<>>
              /\ TypeMatches => last.result = Ok(last.before.r.deserialized)
        /\ (last.policy = SilentRefetch /\ TypeMatches) =>
              /\ last.events = RequestEvent
              /\ last.result = Ok(last.before.r.deserialized)
        /\ last.policy = MustBeFresh =>
              /\ last.events = RequestEvent
              /\ last.result = Err(Stale)

C6_Witness ==
    /\ AcquiredOn(Dirty)
    /\ last.policy = MustBeFresh
    /\ last.events = RequestEvent

\* C7: acquire on a BeingRefetched entry never notifies a Request; MayBeStale
\* and SilentRefetch return Ok(value), MustBeFresh returns Err(Stale).
C7_AcquireBeingRefetched ==
    AcquiredOn(BeingRefetched) =>
        /\ last.events = <<>>
        /\ (last.policy \in {MayBeStale, SilentRefetch} /\ TypeMatches) =>
              last.result = Ok(last.before.r.deserialized)
        /\ last.policy = MustBeFresh => last.result = Err(Stale)

C7_Witness ==
    /\ AcquiredOn(BeingRefetched) /\ TypeMatches
    /\ last.policy = SilentRefetch

\* C8: applying a Fetched message overwrites the entry with the message's
\* resource, Fresh, whatever the entry was, and notifies one Fetched event.
C8_FetchedOverwrites ==
    last.op = "Fetched" =>
        /\ cache[last.resource] = Fetched(last.msg.data)
        /\ cache[last.resource].r.freshness = Fresh
        /\ last.events = <<EvFetched(last.resource)>>
        /\ last.cmds = 0

C8_Witness ==
    /\ last.op = "Fetched"
    /\ IsFetchedWith(last.before, Dirty)
    /\ last.before.r.raw # cache[last.resource].r.raw

\* C9: applying MarkDirty makes a Fetched entry Dirty whatever its freshness
\* was, leaves an absent or Pending entry alone, and starts no fetch command.
C9_MarkDirty ==
    last.op = "MarkDirty" =>
        /\ cache[last.resource] =
              IF last.before.kind = "Fetched"
              THEN Fetched([last.before.r EXCEPT !.freshness = Dirty])
              ELSE last.before
        /\ last.cmds = 0
        /\ last.events = <<>>

C9_Witness ==
    /\ last.op = "MarkDirty"
    /\ IsFetchedWith(last.before, BeingRefetched)
    /\ IsFetchedWith(cache[last.resource], Dirty)

\* C10: after the first fetch of a key failed, the key has no entry, and the
\* next acquire returns Err(NotFetched) and notifies a Request that starts a
\* new fetch command.
C10_FailedFirstFetchIsRetried ==
    (last.op = "Error" /\ last.before = WillBeFetched) =>
        /\ cache[last.resource] = NoEntry
        /\ \A p \in CachePolicy, t \in Types :
              /\ acquire_and_fetch(cache, last.resource, p, t).result = Err(NotFetched)
              /\ acquire_and_fetch(cache, last.resource, p, t).fetch
        /\ UpdateRequest(cache, last.resource).cmd

\* C11: applying an Error message, for any key and error kind, leaves the
\* whole cache map as it was and notifies exactly one Error event carrying
\* that key and kind; no command is started.
C11_ErrorLeavesCache ==
    [][last'.op = "Error" =>
          /\ cache' = cache
          /\ last'.events = <<EvError(last'.resource, last'.msg.kind)>>
          /\ last'.cmds = 0]_vars

C11_Witness ==
    /\ last.op = "Error"
    /\ last.msg.kind = DeserializeError
    /\ IsFetchedWith(cache[last.resource], BeingRefetched)

\* C12: acquire_now returns what acquire returns for the same key, policy and
\* type in the same cache state, notifies nothing, starts nothing and leaves
\* the cache alone.  (After acquire_now the cache is the one it read, so the
\* acquire steps possible from the state it leaves are the ones to compare.)
C12_AcquireNowReadsLikeAcquire ==
    /\ [](last.op = "acquire_now" =>
            /\ ~ ENABLED (/\ Acquire(last.resource, last.policy, last.ty)
                          /\ last'.result # last.result)
            /\ (last.result # Panic /\ Len(bus) < MaxQueue) =>
                  ENABLED (/\ Acquire(last.resource, last.policy, last.ty)
                           /\ last'.result = last.result)
            /\ last.result = Panic =>
                  acquire_and_fetch(cache, last.resource, last.policy, last.ty).result
                      = Panic)
    /\ [][last'.op = "acquire_now" =>
            /\ UNCHANGED <<cache, bus, inflight>>
            /\ last'.events = <<>>
            /\ last'.cmds = 0]_vars

C12_Witness ==
    /\ last.op = "acquire_now"
    /\ IsFetchedWith(last.before, Dirty)
    /\ last.policy = SilentRefetch
    /\ last.result.tag = "Ok"

\* C13: the end-to-end scenario.  On a key with no entry acquire(MustBeFresh)
\* returns Err(NotFetched) and one fetch is started; once Fetched with value V
\* is applied the entry is Fresh and acquire(MustBeFresh) returns Ok(V) with
\* no Request; after mark_as_dirty the entry is Dirty; acquire(SilentRefetch)
\* returns Ok(V) with one Request, which makes the entry BeingRefetched with
\* one refetch started; a second acquire(SilentRefetch) returns Ok(V) with no
\* Request.  V stays the value fetched until the refetch resolves.
C13_ScenarioStep ==
    LET k == last.resource
        V == cache[k].r.deserialized
    IN
    /\ (last.op = "acquire" /\ last.before = NoEntry) =>
          /\ last.policy = MustBeFresh
          /\ last.result = Err(NotFetched) /\ last.events = RequestEvent
    /\ (last.op = "Request" /\ last.before = NoEntry) =>
          /\ cache[k] = WillBeFetched /\ last.cmds = 1 /\ Outstanding(k) = 1
    /\ (last.op = "Fetched" /\ last.before = WillBeFetched) =>
          /\ IsFetchedWith(cache[k], Fresh) /\ cache[k].r = last.msg.data
          /\ Outstanding(k) = 0
    /\ AcquiredOn(Fresh) =>
          /\ last.policy = MustBeFresh
          /\ last.result = Ok(V) /\ last.events = <<>>
    /\ last.op = "mark_as_dirty" =>
          /\ last.events = <<EvMarkDirty(k)>> /\ IsFetchedWith(cache[k], Fresh)
    /\ last.op = "MarkDirty" => IsFetchedWith(cache[k], Dirty)
    /\ AcquiredOn(Dirty) =>
          /\ last.policy = SilentRefetch
          /\ last.result = Ok(V) /\ last.events = RequestEvent
    /\ (last.op = "Request" /\ last.before.kind = "Fetched") =>
          /\ IsFetchedWith(cache[k], BeingRefetched)
          /\ last.cmds = 1 /\ Outstanding(k) = 1
    /\ AcquiredOn(BeingRefetched) =>
          /\ last.policy = SilentRefetch
          /\ last.result = Ok(V) /\ last.events = <<>> /\ bus = <<>>
          /\ Outstanding(k) = 1

C13_Scenario ==
    /\ []C13_ScenarioStep
    /\ [][\A k \in Keys :
            (cache[k].kind = "Fetched" /\ last'.op # "Fetched" /\ last'.op # "Error") =>
                /\ cache'[k].kind = "Fetched"
                /\ cache'[k].r.deserialized = cache[k].r.deserialized
                /\ cache'[k].r.raw = cache[k].r.raw]_vars

C13_Witness ==
    /\ AcquiredOn(BeingRefetched)
    /\ last.policy = SilentRefetch
    /\ last.result.tag = "Ok"
    /\ bus = <<>>

\* C14: applying the same Fetched message twice in a row leaves the cache as
\* applying it once does: for every Fetched message a fetch command can
\* resolve to, from every reachable cache, and on every step that applies a
\* Fetched message equal to the one applied by the step before.
FetchedMsgs ==
    {m \in {FetchTask(k, t, r) : k \in Keys, t \in Types, r \in Responses} :
        m.msg = "Fetched"}

C14_FetchedIdempotent ==
    /\ [](\A m \in FetchedMsgs :
            LET once == UpdateFetched(cache, m.resource, m.data)
            IN UpdateFetched(once, m.resource, m.data) = once)
    /\ [][(last.op = "Fetched" /\ last'.op = "Fetched" /\ last'.msg = last.msg) =>
            cache' = cache]_vars

C14_Witness ==
    /\ last.op = "Fetched"
    /\ last.before = Fetched(last.msg.data)
    /\ cache[last.resource] = last.before

\* C15: a typed read (acquire or acquire_now) of a key as a type other than
\* the one its first fetch was requested as is fatal: whenever the policy
\* table serves the stored value, the call panics, returning neither Ok nor a
\* NotAvailable error.
C15_MismatchIsFatal ==
    (/\ last.op \in {"acquire", "acquire_now"}
     /\ last.ty # FirstType
     /\ last.before.kind = "Fetched"
     /\ (last.before.r.freshness = Fresh \/ last.policy # MustBeFresh)) =>
        last.result = Panic

\* What a field declares: the values of its url and of its policy attributes.
Declared(field, name) ==
    {field.attrs[i].lit.value :
        i \in {j \in 1..Len(field.attrs) :
                 field.attrs[j].meta = "NameValue" /\ field.attrs[j].path = name}}

Generated(items) == {items[i] : i \in 1..Len(items)}
Derived == output.expanded /\ ~ Panicked(output)

\* C16: the generated acquire and acquire_now read every fetched field with
\* the key and the policy declared on it: policy P for #[policy = "P"],
\* MustBeFresh for a field with no policy attribute.
C16_DeclaredPolicyPassed ==
    Derived =>
        \A i \in 1..Len(input.named) :
            LET f == input.named[i]
                declared == IF Declared(f, "policy") = {} THEN {MustBeFresh}
                            ELSE Declared(f, "policy")
            IN (f.ty # DontFetch /\ Cardinality(declared) = 1
                    /\ Cardinality(Declared(f, "url")) = 1) =>
                \A calls \in {output.acquire_assign, output.acquire_now} :
                    /\ \E c \in Generated(calls) : c.field = f.ident
                    /\ \A c \in Generated(calls) :
                          c.field = f.ident =>
                              /\ c.url \in Declared(f, "url")
                              /\ c.policy \in declared

\* C17: for every field f with #[url = U] the generated f_url() is there,
\* once, and returns U, whatever the order of the field's attributes, the URLs
\* of the other fields and the type of the field.
C17_UrlGetters ==
    /\ (input.data = "Struct" /\ input.fields = "Named"
            /\ \A i \in 1..Len(input.named) : Declared(input.named[i], "url") # {}
            /\ output.expanded) => ~ Panicked(output)
    /\ Derived =>
          /\ Len(output.url_getters) = Len(input.named)
          /\ \A i \in 1..Len(input.named) :
                LET f == input.named[i]
                    g == output.url_getters[i]
                IN /\ g.name = f.ident \o "_url"
                   /\ \A j \in 1..Len(input.named) :
                         output.url_getters[j].name = g.name => j = i
                   /\ Cardinality(Declared(f, "url")) = 1 =>
                         g.returns \in Declared(f, "url")

C17_Witness ==
    /\ Derived
    /\ Len(input.named) = 2
    /\ input.named[1].ty = DontFetch
    /\ input.named[2].ty # DontFetch
    /\ Declared(input.named[1], "url") = {"/api/test34"}
    /\ Declared(input.named[2], "url") = {"/api/test34"}
    /\ input.named[2].attrs[1].path = "policy"
    /\ output.url_getters[1] = [name |-> "res_url", returns |-> "/api/test34"]
    /\ output.url_getters[2] = [name |-> "res_2_url", returns |-> "/api/test34"]

\* C18: applying a Request starts a fetch command exactly when the entry is
\* absent or Dirty, and then one: an absent entry becomes Pending, a Dirty one
\* BeingRefetched with its payload kept; on a Pending, BeingRefetched or Fresh
\* entry it changes nothing and starts nothing.
C18_Request ==
    /\ [](last.op = "Request" =>
            /\ last.events = <<>>
            /\ IF last.before = NoEntry
               THEN cache[last.resource] = WillBeFetched /\ last.cmds = 1
               ELSE IF IsFetchedWith(last.before, Dirty)
               THEN /\ cache[last.resource] =
                          Fetched([last.before.r EXCEPT !.freshness = BeingRefetched])
                    /\ last.cmds = 1
               ELSE cache[last.resource] = last.before /\ last.cmds = 0)
    /\ [][last'.op = "Request" =>
            \A k \in Keys :
                IF last'.resource = k
                THEN Outstanding(k)' = Outstanding(k) + last'.cmds
                ELSE cache'[k] = cache[k] /\ Outstanding(k)' = Outstanding(k)]_vars

C18_Witness ==
    /\ last.op = "Request"
    /\ IsFetchedWith(last.before, Dirty)
    /\ IsFetchedWith(cache[last.resource], BeingRefetched)
    /\ last.cmds = 1

\* C19: a failed refetch leaves the entry BeingRefetched, and while an entry
\* is BeingRefetched no acquire notifies a Request and no Request starts a
\* fetch command, until a MarkDirty or a Fetched message is applied: with no
\* refetch in flight any more, nothing retries it.
C19_FailedRefetchNotRetried ==
    /\ []((last.op = "Error" /\ IsFetchedWith(last.before, BeingRefetched)) =>
            cache[last.resource] = last.before)
    /\ [][\A k \in Keys :
            (IsFetchedWith(cache[k], BeingRefetched) /\ last'.resource = k
                /\ last'.op \notin {"MarkDirty", "Fetched"}) =>
                /\ cache'[k] = cache[k]
                /\ last'.cmds = 0
                /\ Outstanding(k)' <= Outstanding(k)
                /\ last'.op \in {"acquire", "acquire_now"} => last'.events = <<>>]_vars

C19_Witness ==
    /\ last.op = "Request"
    /\ IsFetchedWith(last.before, BeingRefetched)
    /\ IsFetchedWith(cache[last.resource], BeingRefetched)
    /\ Outstanding(last.resource) = 0
    /\ last.cmds = 0

\* C20: acquire, acquire_now and mark_as_dirty never change the cache and
\* start no command; acquire notifies at most one Request, mark_as_dirty
\* exactly one MarkDirty for its key, acquire_now nothing; the cache only
\* changes when update applies a message.
C20_SingleWriter ==
    [][/\ last'.op \in {"acquire", "acquire_now", "mark_as_dirty"} =>
            /\ cache' = cache /\ inflight' = inflight /\ last'.cmds = 0
            /\ bus' = bus \o last'.events
       /\ last'.op = "acquire" =>
            last'.events \in {<<>>, <<EvRequest(last'.resource, last'.ty)>>}
       /\ last'.op = "acquire_now" => last'.events = <<>>
       /\ last'.op = "mark_as_dirty" => last'.events = <<EvMarkDirty(last'.resource)>>
       /\ cache' # cache => last'.op \in {"Request", "Fetched", "MarkDirty"}]_vars

C20_Witness ==
    /\ last.op = "mark_as_dirty"
    /\ IsFetchedWith(cache[last.resource], Fresh)
    /\ bus # <<>> /\ bus[Len(bus)] = EvMarkDirty(last.resource)

\* C21: a slot is never deleted and never loses its data: a key that has an
\* entry keeps one on every step, and an entry that is Fetched stays Fetched.
C21_SlotKept ==
    [][\A k \in Keys :
          /\ cache[k] # NoEntry => cache'[k] # NoEntry
          /\ cache[k].kind = "Fetched" =>
                /\ cache'[k].kind = "Fetched"
                /\ cache'[k].r.freshness \in Freshness
                /\ last'.op # "Fetched" =>
                      [cache'[k].r EXCEPT !.freshness = Fresh]
                          = [cache[k].r EXCEPT !.freshness = Fresh]]_vars

C21_Witness ==
    /\ last.op = "Error"
    /\ last.msg.kind = FetchError
    /\ IsFetchedWith(last.before, Dirty)
    /\ IsFetchedWith(cache[last.resource], Dirty)

\* C22: acquire does not record that it dispatched, so every acquire on an
\* absent key (or on a Dirty one under MustBeFresh or SilentRefetch) emits a
\* fetch-request event and queues a Request, whatever is queued already; a
\* Request applied to an absent or Dirty entry starts one fetch command, and a
\* Request applied right after another Request for the same key starts none.
C22_RequestsCoalesce ==
    /\ [][\A k \in Keys :
            (/\ last'.op = "acquire"
             /\ last'.resource = k
             /\ \/ cache[k] = NoEntry
                \/ /\ IsFetchedWith(cache[k], Dirty)
                   /\ \/ last'.policy = MustBeFresh
                      \/ /\ last'.policy = SilentRefetch
                         /\ cache[k].r.deserialized.ty = last'.ty) =>
                /\ last'.events = <<EvRequest(k, last'.ty)>>
                /\ bus' = Append(bus, EvRequest(k, last'.ty))
                /\ cache' = cache
                /\ Outstanding(k)' = Outstanding(k)]_vars
    /\ [][\A k \in Keys :
            (/\ last'.op = "Request"
             /\ last'.resource = k
             /\ cache[k] = NoEntry \/ IsFetchedWith(cache[k], Dirty)) =>
                /\ last'.cmds = 1
                /\ Outstanding(k)' = Outstanding(k) + 1]_vars
    /\ [][\A k \in Keys :
            (/\ last.op = "Request"
             /\ last.resource = k
             /\ last'.op = "Request"
             /\ last'.resource = k) =>
                /\ last'.cmds = 0
                /\ cache' = cache
                /\ Outstanding(k)' = Outstanding(k)]_vars

C22_Witness ==
    /\ last.op = "Request"
    /\ last.before = WillBeFetched
    /\ last.cmds = 0
    /\ cache[last.resource] = WillBeFetched
    /\ Outstanding(last.resource) = 1
    /\ bus = <<>>

====
